---- MODULE Spec2Model ----
(***************************************************************************)
(* A state-machine model of check_standby_relocation_t1_2.1.py: the        *)
(* paginated listing of Tier-1 gateways, their classification, the         *)
(* interactive selection, the confirmation and the GET / backup / PUT      *)
(* remediation loop of main().                                             *)
(*                                                                         *)
(* Conventions.                                                            *)
(*  - A Python str that the program lower-cases, strips or splits is a     *)
(*    tuple of one-character strings, <<"g","w">>.                         *)
(*  - Any other JSON scalar is its JSON literal, "true", "null", "\"c1\"". *)
(*  - A JSON object (a Python dict) is a function from the keys that are   *)
(*    present to their values; an absent key is not in its DOMAIN.         *)
(*  - Python lists hold references: the classification buckets and the     *)
(*    selection are sequences of positions in t1_list, the list that holds *)
(*    the decoded gateway objects.                                         *)
(***************************************************************************)
EXTENDS Integers, Sequences, FiniteSets, TLC

VARIABLES
    pc,                 \* position of main(): list, classify, select, confirm,
                        \* get, backup, put, done, crashed
    cursor,             \* list_tier1_gateways: cursor
    results,            \* list_tier1_gateways: results
    requests,           \* history: the cursor parameter of every listing GET sent
    pages,              \* history: every listing response received
    t1_list,            \* main: t1_list
    active_standby_all, \* main: active_standby_all
    compliant,          \* main: compliant
    non_compliant,      \* main: non_compliant
    reported,           \* whether print_report has printed the report
    line,               \* select_t1s_to_modify: the last line input() returned
    prompts,            \* number of selection prompts answered so far
    selected_t1s,       \* main: selected_t1s
    answer,             \* main: answer (as typed)
    idx,                \* main: position of the for loop in selected_t1s
    t1_config,          \* update_t1_relocation: t1_config
    backup_file,        \* update_t1_relocation: backup_file
    now,                \* the wall clock, in ticks
    files,              \* the backups directory: path -> content
    success_count,      \* main: success_count
    error_count,        \* main: error_count
    backup_files,       \* main: backup_files
    log                 \* history: the GET, BACKUP and PUT steps of the loop

vars == <<pc, cursor, results, requests, pages, t1_list, active_standby_all,
          compliant, non_compliant, reported, line, prompts, selected_t1s,
          answer, idx, t1_config, backup_file, now, files, success_count,
          error_count, backup_files, log>>

listVars == <<cursor, results, requests, pages>>
classVars == <<active_standby_all, compliant, non_compliant, reported>>
selVars == <<line, prompts, selected_t1s>>
loopVars == <<idx, t1_config, backup_file, now, files, success_count,
              error_count, backup_files, log>>

----------------------------------------------------------------------------
(* Bounds of the model *)

\* listing pages the server serves before it has to omit the cursor
MaxPages == 2
\* length of a typed line drawn from the alphabet
MaxInputLen == 3
\* selection prompts the operator answers before giving a line that returns
MaxPrompts == 2
\* clock ticks the run may last
MaxTicks == 3
\* clock ticks in one second
TicksPerSecond == 2
\* gateways in a list that a specification of one function starts from
MaxList == 2

----------------------------------------------------------------------------
(* Python values *)

None == "null"

\* bool(v) of a decoded JSON scalar
Truthy(v) == v \notin {"null", "false", "0", "0.0", "\"\""}

\* dict.get(key, default)
Get(d, key, default) == IF key \in DOMAIN d THEN d[key] ELSE default

UpperCase == <<"A", "B", "C", "D", "E", "F", "G", "H", "I", "J", "K", "L", "M",
               "N", "O", "P", "Q", "R", "S", "T", "U", "V", "W", "X", "Y", "Z",
               "Ì">>
LowerCase == <<"a", "b", "c", "d", "e", "f", "g", "h", "i", "j", "k", "l", "m",
               "n", "o", "p", "q", "r", "s", "t", "u", "v", "w", "x", "y", "z",
               "ì">>

LowerChar(c) ==
    IF \E i \in DOMAIN UpperCase : UpperCase[i] = c
    THEN LowerCase[CHOOSE i \in DOMAIN UpperCase : UpperCase[i] = c]
    ELSE c

\* str.lower()
Lower(s) == [i \in 1..Len(s) |-> LowerChar(s[i])]

Whitespace == {" ", "\t"}

RECURSIVE LStrip(_)
LStrip(s) ==
    IF s # <<>> /\ Head(s) \in Whitespace THEN LStrip(Tail(s)) ELSE s

RECURSIVE RStrip(_)
RStrip(s) ==
    IF s # <<>> /\ s[Len(s)] \in Whitespace
    THEN RStrip(SubSeq(s, 1, Len(s) - 1))
    ELSE s

\* str.strip()
Strip(s) == RStrip(LStrip(s))

\* str.split(sep): always at least one piece
RECURSIVE Split(_, _)
Split(s, sep) ==
    IF \E i \in 1..Len(s) : s[i] = sep
    THEN LET i == CHOOSE j \in 1..Len(s) :
                      s[j] = sep /\ \A k \in 1..(j - 1) : s[k] # sep
         IN  <<SubSeq(s, 1, i - 1)>> \o Split(SubSeq(s, i + 1, Len(s)), sep)
    ELSE <<s>>

Range(s) == {s[i] : i \in DOMAIN s}

----------------------------------------------------------------------------------------------------------------------------------------
(* The environment: what the server answers and what the operator types *)

AS == "ACTIVE_STANDBY"
AA == "ACTIVE_ACTIVE"

EmptyMap == [k \in {} |-> 0]

Key(k, values) == {k :> v : v \in values}

ErrorBody == ("error_code" :> "500")

\* the pages a listing GET may answer with: results and cursor may be absent
PagesOf(resultSets, cursors) ==
    {[status |-> 200, body |-> r @@ c] :
        r \in Key("results", resultSets) \cup {EmptyMap},
        c \in Key("cursor", cursors) \cup {EmptyMap}}

ErrorPages == {[status |-> 500, body |-> ErrorBody]}

\* Gateways of the whole run: two that are not compliant, the second without
\* the flag, one that is compliant, one in another mode and one without id.
NonCompliantB ==
    ("id" :> <<"b">>) @@ ("display_name" :> <<"G", "w">>) @@ ("ha_mode" :> AS)
        @@ ("enable_standby_relocation" :> "false") @@ ("tags" :> "[]")
NonCompliantC ==
    ("id" :> <<"c">>) @@ ("display_name" :> <<"b">>) @@ ("ha_mode" :> AS)
CompliantD ==
    ("id" :> <<"d">>) @@ ("ha_mode" :> AS)
        @@ ("enable_standby_relocation" :> "true")
ActiveActiveE ==
    ("id" :> <<"e">>) @@ ("ha_mode" :> AA)
        @@ ("enable_standby_relocation" :> "false")
NoId == ("display_name" :> <<"n">>) @@ ("ha_mode" :> AS)

RunPages ==
    {[status |-> 200,
      body |-> ("results" :> <<NonCompliantB>>) @@ ("cursor" :> "\"c1\"")],
     [status |-> 200, body |-> ("results" :> <<NonCompliantB>>)],
     [status |-> 200, body |-> ("results" :> <<CompliantD, NonCompliantC>>)],
     [status |-> 200,
      body |-> ("results" :> <<CompliantD, ActiveActiveE>>) @@ ("cursor" :> "\"\"")],
     [status |-> 200, body |-> ("results" :> <<NoId>>)]}
    \cup ErrorPages

\* what the operator may type at the selection prompt of the whole run
RunLines ==
    {<<"a", "l", "l">>, <<"q">>, <<"x">>, <<"G", "W", ",", "x">>,
     <<"c", ",", " ", "g", "w", ",", "C">>}

\* what the operator may answer to the confirmation
Answers == {<<"Y", " ">>, <<"n", "o">>, <<"y", "e", "p">>}

\* the objects GET /tier-1s/{id} may answer with: the full object, one
\* without the flag and one whose flag is on already and that has no id
FullConfigs(t1_id) ==
    {("id" :> t1_id) @@ ("display_name" :> <<"G", "w">>) @@ ("ha_mode" :> AS)
         @@ ("enable_standby_relocation" :> "false") @@ ("tags" :> "[]")
         @@ ("_revision" :> "7"),
     ("id" :> t1_id) @@ ("ha_mode" :> AS),
     ("ha_mode" :> AS) @@ ("enable_standby_relocation" :> "true")}

GetAnswers(t1_id) ==
    {[status |-> 200, body |-> o] : o \in FullConfigs(t1_id)}
    \cup {[status |-> 404, body |-> ErrorBody]}

PutStatuses == {200, 500}

----------------
(* HTTP *)

\* Response.raise_for_status(): raises HTTPError on 4xx and 5xx
RaisesForStatus(status) == status >= 400 /\ status < 600

----------------------------------------------------------------------------
(* list_tier1_gateways *)

\* params: the cursor is sent only when it is truthy (None: no parameter)
CursorParam(cur) == IF Truthy(cur) THEN cur ELSE None

\* A variant that keeps the results of the last page alone.
ReplaceResults(res, data) == Get(data, "results", <<>>)

\* results.extend(data.get("results", []))
ExtendResults(res, data) == res \o Get(data, "results", <<>>)

\* cursor = data.get("cursor")
NextCursor(data) == Get(data, "cursor", None)

\* if not cursor: break
LastPage(cur) == ~Truthy(cur)

\* One turn of the while loop: a GET, raise_for_status, the accumulation and
\* the test of the cursor. A listing that raises is not caught by main.
ListPage(Responses) ==
    /\ pc = "list"
    /\ \E resp \in Responses :
        /\ \/ Len(pages) + 1 < MaxPages
           \/ RaisesForStatus(resp.status)
           \/ ~Truthy(Get(resp.body, "cursor", None))
        /\ requests' = Append(requests, CursorParam(cursor))
        /\ pages' = Append(pages, resp)
        /\ IF RaisesForStatus(resp.status)
           THEN /\ pc' = "crashed"
                /\ UNCHANGED <<cursor, results, t1_list>>
           ELSE /\ results' = ExtendResults(results, resp.body)
                /\ cursor' = NextCursor(resp.body)
                /\ IF LastPage(NextCursor(resp.body))
                   THEN /\ pc' = "classify"
                        /\ t1_list' = ExtendResults(results, resp.body)
                   ELSE /\ pc' = "list"
                        /\ t1_list' = t1_list
    /\ UNCHANGED <<classVars, selVars, answer, loopVars>>

----------------------------------------------------------------------------
(* classify_t1s and print_report *)

\* ha_mode == "ACTIVE_STANDBY"
IsActiveStandby(t1) == Get(t1, "ha_mode", None) = "ACTIVE_STANDBY"

\* A variant that takes the flag for on only when it is the boolean true.
StandbyIsTrue(t1) == Get(t1, "enable_standby_relocation", "false") = "true"

\* standby = t1.get("enable_standby_relocation", False); if standby:
StandbyOn(t1) == Truthy(Get(t1, "enable_standby_relocation", "false"))

\* The three lists after the first k gateways of the for loop.
RECURSIVE ClassifyUpTo(_, _)
ClassifyUpTo(list, k) ==
    IF k = 0
    THEN [asa |-> <<>>, comp |-> <<>>, non |-> <<>>]
    ELSE LET b == ClassifyUpTo(list, k - 1)
         IN  IF IsActiveStandby(list[k])
             THEN IF StandbyOn(list[k])
                  THEN [b EXCEPT !.asa = Append(@, k), !.comp = Append(@, k)]
                  ELSE [b EXCEPT !.asa = Append(@, k), !.non = Append(@, k)]
             ELSE b

classify_t1s(list) == ClassifyUpTo(list, Len(list))

\* The detail table formats the id with a width, f"{t1_id:28}": a gateway
\* without an id gives None, whose format raises TypeError.
ReportRaises(list, non) == \E i \in Range(non) : "id" \notin DOMAIN list[i]

\* Steps 4 and 5 of main and the exit when nothing is non compliant.
Classify ==
    /\ pc = "classify"
    /\ LET b == classify_t1s(t1_list)
       IN  /\ active_standby_all' = b.asa
           /\ compliant' = b.comp
           /\ non_compliant' = b.non
           /\ reported' = TRUE
           /\ pc' = IF ReportRaises(t1_list, b.non) THEN "crashed"
                    ELSE IF b.non = <<>> THEN "done"
                    ELSE "select"
    /\ UNCHANGED <<listVars, t1_list, selVars, answer, loopVars>>

----------------------------------------------------------------------------
(* select_t1s_to_modify *)

CancelWords == {<<"e", "x", "i", "t">>, <<"q">>, <<"q", "u", "i", "t">>,
                <<"c", "a", "n", "c", "e", "l">>}
AllWords == {<<"a", "l", "l">>, <<"a">>, <<"*">>}

\* One turn of the loop that fills t1_map: the display name, when it is not
\* empty, and then the id are written into one dict, a write of a key that
\* is there already replacing its value.
MapInsert(m, t1, ref) ==
    LET display_name == Lower(Get(t1, "display_name", <<>>))
        t1_id == Lower(Get(t1, "id", <<>>))
        named == IF display_name # <<>> THEN (display_name :> ref) @@ m ELSE m
    IN  (t1_id :> ref) @@ named

\* t1_map after the first k gateways of the bucket
RECURSIVE MapUpTo(_, _, _)
MapUpTo(list, bucket, k) ==
    IF k = 0
    THEN EmptyMap
    ELSE MapInsert(MapUpTo(list, bucket, k - 1), list[bucket[k]], bucket[k])

BuildMap(list, bucket) == MapUpTo(list, bucket, Len(bucket))

\* names = [name.strip() for name in selection.split(',')]
Names(selection) ==
    LET pieces == Split(selection, ",")
    IN  [i \in 1..Len(pieces) |-> Strip(pieces[i])]

\* A variant that appends without looking.
NotInSkipped(list, t1, selected) == TRUE

\* if t1 not in selected_t1s: membership in a Python list is by equality
NotIn(list, t1, selected) == \A j \in Range(selected) : list[j] # list[t1]

\* selected_t1s after the first k names of the for loop
RECURSIVE MatchUpTo(_, _, _, _)
MatchUpTo(list, map, names, k) ==
    IF k = 0
    THEN <<>>
    ELSE LET sel == MatchUpTo(list, map, names, k - 1)
             name_lower == Lower(names[k])
         IN  IF name_lower \in DOMAIN map
             THEN IF NotIn(list, map[name_lower], sel)
                  THEN Append(sel, map[name_lower])
                  ELSE sel
             ELSE sel

MatchNames(list, map, names) == MatchUpTo(list, map, names, Len(names))

\* A variant that returns the empty list when no name was found.
SelectTurnNoRetry(list, bucket, typed) ==
    LET sel == Strip(typed)
    IN  IF Lower(sel) \in AllWords
        THEN [do |-> "return", value |-> bucket]
        ELSE [do |-> "return",
              value |-> IF Lower(sel) \in CancelWords
                        THEN <<>>
                        ELSE MatchNames(list, BuildMap(list, bucket), Names(sel))]

\* What one turn of the while loop does with the line typed: "return" with
\* the list returned, or "continue".
SelectTurn(list, bucket, typed) ==
    LET sel == Strip(typed)
        matched == MatchNames(list, BuildMap(list, bucket), Names(sel))
    IN  IF Lower(sel) \in CancelWords
        THEN [do |-> "return", value |-> <<>>]
        ELSE IF Lower(sel) \in AllWords
        THEN [do |-> "return", value |-> bucket]
        ELSE IF matched = <<>>
        THEN [do |-> "continue", value |-> <<>>]
        ELSE [do |-> "return", value |-> matched]

\* One prompt of select_t1s_to_modify and, when it returns, step 6 of main.
SelectPrompt(Lines) ==
    /\ pc = "select"
    /\ \E typed \in Lines :
        LET turn == SelectTurn(t1_list, non_compliant, typed)
        IN  /\ turn.do = "continue" => prompts + 1 < MaxPrompts
            /\ line' = typed
            /\ prompts' = prompts + 1
            /\ IF turn.do = "continue"
               THEN /\ pc' = "select"
                    /\ selected_t1s' = selected_t1s
               ELSE /\ selected_t1s' = turn.value
                    /\ pc' = IF turn.value = <<>> THEN "done" ELSE "confirm"
    /\ UNCHANGED <<listVars, t1_list, classVars, answer, loopVars>>

----------------------------------------------------------------------------
(* main: the confirmation *)

Affirmative == {<<"y">>, <<"y", "e", "s">>, <<"s">>, <<"s", "i">>, <<"s", "ì">>}

\* A variant that goes on unless the answer is a no.
ConfirmedUnlessNo(a) == Lower(Strip(a)) \notin {<<"n">>, <<"n", "o">>}

\* answer.strip().lower() in ("y", "yes", "s", "si", "sì")
Confirmed(a) == Lower(Strip(a)) \in Affirmative

\* Step 7 of main and the initialisation of the counters of step 8.
Confirm ==
    /\ pc = "confirm"
    /\ \E a \in Answers :
        /\ answer' = a
        /\ pc' = IF Confirmed(a) THEN "get" ELSE "done"
    /\ UNCHANGED <<listVars, t1_list, classVars, selVars, loopVars>>

----------------------------------------------------------------------------
(* update_t1_relocation, save_t1_backup and the loop of main *)

Unknown == <<"u", "n", "k", "n", "o", "w", "n">>

\* datetime.now().strftime("%Y%m%d_%H%M%S"): the instant cut to its second
FormatTimestamp(t) == t \div TicksPerSecond

\* T1_<id>_<timestamp>.json, with the id of the object read
BackupPath(t1, t) == <<Get(t1, "id", Unknown), FormatTimestamp(t)>>

\* A variant that keeps a file that is there already.
WriteIfAbsent(fs, path, content) ==
    [p \in DOMAIN fs \cup {path} |-> IF p \in DOMAIN fs THEN fs[p] ELSE content]

\* open(filepath, 'w') and json.dump(t1_config, f): the file is created or
\* truncated and holds the object as it is at the call
WriteFile(fs, path, content) ==
    [p \in DOMAIN fs \cup {path} |-> IF p = path THEN content ELSE fs[p]]

\* A variant that sends the changed field alone, as a PATCH would.
SetRelocationOnly(t1, value) == ("enable_standby_relocation" :> value)

\* t1_config["enable_standby_relocation"] = enable_standby_relocation
SetRelocation(t1, value) ==
    [k \in DOMAIN t1 \cup {"enable_standby_relocation"} |->
        IF k = "enable_standby_relocation" THEN value ELSE t1[k]]

\* the for loop has gateways left
Pending == idx <= Len(selected_t1s)

\* A variant in which a failure is counted and ends the loop.
FailedAborts ==
    /\ error_count' = error_count + 1
    /\ idx' = Len(selected_t1s) + 1
    /\ pc' = "get"
    /\ UNCHANGED <<success_count, backup_files>>

\* except requests.HTTPError / except Exception of main: count and go on
Failed ==
    /\ error_count' = error_count + 1
    /\ idx' = idx + 1
    /\ pc' = "get"
    /\ UNCHANGED <<success_count, backup_files>>

\* The start of one turn of the for loop: t1["id"] and the GET of
\* update_t1_relocation.
GetStep ==
    /\ pc = "get"
    /\ Pending
    /\ LET t1 == t1_list[selected_t1s[idx]]
       IN  IF "id" \notin DOMAIN t1
           THEN /\ Failed
                /\ UNCHANGED <<t1_config, log>>
           ELSE \E resp \in GetAnswers(t1["id"]) :
                    IF RaisesForStatus(resp.status)
                    THEN /\ Failed
                         /\ log' = Append(log, [op |-> "GET", n |-> idx,
                                                id |-> t1["id"], ok |-> FALSE])
                         /\ UNCHANGED t1_config
                    ELSE /\ t1_config' = resp.body
                         /\ log' = Append(log, [op |-> "GET", n |-> idx,
                                                id |-> t1["id"], ok |-> TRUE,
                                                obj |-> resp.body])
                         /\ pc' = "backup"
                         /\ UNCHANGED <<idx, success_count, error_count,
                                        backup_files>>
    /\ UNCHANGED <<listVars, t1_list, classVars, selVars, answer, backup_file,
                   now, files>>

\* save_t1_backup: the clock is read, the file is written; a write that
\* raises (OSError) is caught by main.
BackupStep ==
    /\ pc = "backup"
    /\ \E t \in now..(IF now < MaxTicks THEN now + 1 ELSE now), written \in BOOLEAN :
        LET filepath == BackupPath(t1_config, t)
        IN  /\ now' = t
            /\ IF written
               THEN /\ files' = WriteFile(files, filepath, t1_config)
                    /\ backup_file' = filepath
                    /\ log' = Append(log, [op |-> "BACKUP", n |-> idx,
                                           path |-> filepath, ok |-> TRUE,
                                           obj |-> t1_config])
                    /\ pc' = "put"
                    /\ UNCHANGED <<idx, success_count, error_count,
                                   backup_files>>
               ELSE /\ Failed
                    /\ log' = Append(log, [op |-> "BACKUP", n |-> idx,
                                           path |-> filepath, ok |-> FALSE])
                    /\ UNCHANGED <<files, backup_file>>
    /\ UNCHANGED <<listVars, t1_list, classVars, selVars, answer, t1_config>>

\* The field is set, the object is PUT, and main counts the outcome.
PutStep ==
    /\ pc = "put"
    /\ \E status \in PutStatuses :
        LET body == SetRelocation(t1_config, "true")
        IN  /\ t1_config' = body
            /\ log' = Append(log, [op |-> "PUT", n |-> idx,
                                   id |-> t1_list[selected_t1s[idx]]["id"],
                                   ok |-> ~RaisesForStatus(status),
                                   obj |-> body])
            /\ IF RaisesForStatus(status)
               THEN Failed
               ELSE /\ backup_files' = Append(backup_files, backup_file)
                    /\ success_count' = success_count + 1
                    /\ idx' = idx + 1
                    /\ pc' = "get"
                    /\ UNCHANGED error_count
    /\ UNCHANGED <<listVars, t1_list, classVars, selVars, answer, backup_file,
                   now, files>>

\* The loop is over: the summary is printed and main returns.
Summary ==
    /\ pc = "get"
    /\ ~Pending
    /\ pc' = "done"
    /\ UNCHANGED <<listVars, t1_list, classVars, selVars, answer, loopVars>>

----------------------------------------------------------------------------------------------------------------------------------------
(* The whole run of main *)

Init ==
    /\ pc = "list"
    /\ cursor = None
    /\ results = <<>>
    /\ requests = <<>>
    /\ pages = <<>>
    /\ t1_list = <<>>
    /\ active_standby_all = <<>>
    /\ compliant = <<>>
    /\ non_compliant = <<>>
    /\ reported = FALSE
    /\ line = <<>>
    /\ prompts = 0
    /\ selected_t1s = <<>>
    /\ answer = <<>>
    /\ idx = 1
    /\ t1_config = EmptyMap
    /\ backup_file = <<>>
    /\ now = 0
    /\ files = EmptyMap
    /\ success_count = 0
    /\ error_count = 0
    /\ backup_files = <<>>
    /\ log = <<>>

Remediate ==
    \/ GetStep
    \/ BackupStep
    \/ PutStep
    \/ Summary

Next ==
    \/ ListPage(RunPages)
    \/ Classify
    \/ SelectPrompt(RunLines)
    \/ Confirm
    \/ Remediate

Spec == Init /\ [][Next]_vars

----------------------------------------------------------------------------
(* The listing alone, with every shape of page *)

ListPages ==
    PagesOf({<<>>, <<NonCompliantB>>, <<CompliantD, ActiveActiveE>>},
            {"null", "\"\"", "\"c1\"", "\"c2\""})
    \cup ErrorPages

ListNext == ListPage(ListPages)

\* The loop of list_tier1_gateways has nothing to wait for but the answer of
\* the server: a turn that can be taken is taken.
ListSpec == Init /\ [][ListNext]_vars /\ WF_vars(ListNext)

----------------------------------------------------------------------------
(* The state of main after the listing returned the given list in one page *)

Listed(list) ==
    /\ cursor = None
    /\ results = list
    /\ requests = <<None>>
    /\ pages = <<[status |-> 200, body |-> ("results" :> list)]>>
    /\ t1_list = list
    /\ line = <<>>
    /\ prompts = 0
    /\ selected_t1s = <<>>
    /\ answer = <<>>
    /\ idx = 1
    /\ t1_config = EmptyMap
    /\ backup_file = <<>>
    /\ now = 0
    /\ files = EmptyMap
    /\ success_count = 0
    /\ error_count = 0
    /\ backup_files = <<>>
    /\ log = <<>>

ListsOf(gateways) == UNION {[1..n -> gateways] : n \in 0..MaxList}

----------------------------------------------------------------------------
(* The classification alone, over every list of a family of gateways *)

ClassifyGateways ==
    {i @@ m @@ f :
        i \in Key("id", {<<"b">>}) \cup {EmptyMap},
        m \in Key("ha_mode", {AS, AA}) \cup {EmptyMap},
        f \in Key("enable_standby_relocation",
                  {"false", "true", "null", "1", "\"\""}) \cup {EmptyMap}}

ClassifyInit ==
    /\ pc = "classify"
    /\ \E list \in ListsOf(ClassifyGateways) : Listed(list)
    /\ active_standby_all = <<>>
    /\ compliant = <<>>
    /\ non_compliant = <<>>
    /\ reported = FALSE

ClassifyNext == Classify

ClassifySpec == ClassifyInit /\ [][ClassifyNext]_vars

----------------------------------------------------------------------------
(* The selection alone, over every list of a family of gateways whose names *)
(* and ids collide, and every short line                                    *)

SelectGateways ==
    {("id" :> <<"b">>) @@ ("display_name" :> <<"B">>) @@ ("ha_mode" :> AS),
     ("id" :> <<"b">>) @@ ("ha_mode" :> AS),
     ("id" :> <<"c">>) @@ ("display_name" :> <<"B">>) @@ ("ha_mode" :> AS),
     ("id" :> <<"c">>) @@ ("display_name" :> <<>>) @@ ("ha_mode" :> AS),
     ("id" :> <<"b">>) @@ ("display_name" :> <<"c">>) @@ ("ha_mode" :> AS)
         @@ ("enable_standby_relocation" :> "false"),
     ("id" :> <<"C">>) @@ ("display_name" :> <<"q">>) @@ ("ha_mode" :> AS),
     ("id" :> <<"b">>) @@ ("display_name" :> <<"c">>) @@ ("ha_mode" :> AS)
         @@ ("enable_standby_relocation" :> "true")}

Alphabet == {"b", "C", ","}

\* every line of at most MaxInputLen characters of the alphabet
ShortLines == UNION {[1..n -> Alphabet] : n \in 0..MaxInputLen}

\* lines with the words of the menu, blanks and names that are not there
MenuLines ==
    {<<"a">>, <<" ", "A", "L", "L">>, <<"*">>, <<"a", "l", "l", ",">>,
     <<"q">>, <<"Q", "u", "i", "t", " ">>, <<"e", "x", "i", "t">>,
     <<"c", "a", "n", "c", "e", "l">>, <<"q", ",", "C", ",", "b">>, <<" ", "b", " ", ",", "\t", "C">>,
     <<"B">>, <<"b", ",", "B">>, <<"c", ",", "B", ",", "c">>, <<"x">>, <<" ">>}

\* the lines typed after a first line was refused
RetypedLines == {<<"b", ",", "x">>, <<"x">>, <<"q">>}

SelectInit ==
    /\ pc = "select"
    /\ \E list \in ListsOf(SelectGateways) :
        /\ Listed(list)
        /\ classify_t1s(list).non # <<>>
        /\ ~ReportRaises(list, classify_t1s(list).non)
        /\ active_standby_all = classify_t1s(list).asa
        /\ compliant = classify_t1s(list).comp
        /\ non_compliant = classify_t1s(list).non
    /\ reported = TRUE

SelectNext ==
    SelectPrompt(IF prompts = 0 THEN ShortLines \cup MenuLines ELSE RetypedLines)

SelectSpec == SelectInit /\ [][SelectNext]_vars

----------------------------------------------------------------------------
(* Properties of the whole run *)

Flag == "enable_standby_relocation"

\* the positions of the log that hold a step of the given kind
Steps(op) == {i \in DOMAIN log : log[i].op = op}

\* the successful GET of attempt n, when the log has one before position i
ReadBefore(i, n) ==
    {j \in 1..(i - 1) : log[j].op = "GET" /\ log[j].n = n /\ log[j].ok}

\* C1: the backup holds the object exactly as the GET of the same attempt
\* returned it, and the body of the PUT is that object with the flag set to
\* true: every other field is there with its value and no field is added.
C1_RoundTrip ==
    /\ \A i \in Steps("BACKUP") :
          log[i].ok =>
              /\ ReadBefore(i, log[i].n) # {}
              /\ \A j \in ReadBefore(i, log[i].n) : log[i].obj = log[j].obj
    /\ pc = "put" =>
          /\ backup_file \in DOMAIN files
          /\ \A j \in ReadBefore(Len(log), idx) : files[backup_file] = log[j].obj
    /\ \A i \in Steps("PUT") :
          /\ ReadBefore(i, log[i].n) # {}
          /\ \A j \in ReadBefore(i, log[i].n) :
                /\ DOMAIN log[i].obj = DOMAIN log[j].obj \cup {Flag}
                /\ log[i].obj[Flag] = "true"
                /\ \A k \in DOMAIN log[j].obj \ {Flag} :
                      log[i].obj[k] = log[j].obj[k]

\* C1: an object with other fields and the flag false was put successfully
\* and another object, without the flag, was put as well.
C1_Witness ==
    /\ \E i \in Steps("PUT") :
          /\ log[i].ok
          /\ \E j \in ReadBefore(i, log[i].n) :
                /\ {"tags", "_revision"} \subseteq DOMAIN log[j].obj
                /\ log[j].obj[Flag] = "false"
    /\ \E i \in Steps("PUT") :
          \E j \in ReadBefore(i, log[i].n) : Flag \notin DOMAIN log[j].obj

\* the listing returned: every page was answered with success and the last
\* one has no cursor
ListingReturned ==
    /\ pages # <<>>
    /\ \A k \in DOMAIN pages : pages[k].status \in 200..299
    /\ Get(pages[Len(pages)].body, "cursor", "null") \in {"null", "\"\""}

\* the operator answered the confirmation with one of the accepted words
SaidYes ==
    Lower(Strip(answer)) \in
        {<<"y">>, <<"y", "e", "s">>, <<"s">>, <<"s", "i">>, <<"s", "ì">>}

\* the selection prompt returned a list to main
Returned == prompts > 0 /\ pc # "select"

\* C2: a backup is written or a PUT is sent only after the listing returned,
\* the selector returned a selection that is not empty and the operator said
\* yes; a run that ends after a cancellation or another answer has sent no
\* request to a gateway and written no file.
C2_ConfirmedBeforeMutation ==
    /\ (Steps("PUT") # {} \/ Steps("BACKUP") # {} \/ DOMAIN files # {}) =>
          /\ ListingReturned
          /\ Returned
          /\ selected_t1s # <<>>
          /\ SaidYes
    /\ (pc = "done" /\ (selected_t1s = <<>> \/ ~SaidYes)) =>
          /\ log = <<>>
          /\ DOMAIN files = {}

\* C2: a PUT was sent in a run whose confirmation was typed in upper case
\* with a blank.
C2_Witness == Steps("PUT") # {} /\ answer = <<"Y", " ">>

\* C3: when the loop is over every selected gateway was attempted once, in
\* the order of the selection, whatever failed before it, the two counters
\* add up to the number of selected gateways and success_count is the number
\* of PUTs that succeeded.
C3_EveryGatewayOnce ==
    /\ pc \in {"get", "backup", "put"} =>
          success_count + error_count = idx - 1
    /\ (pc = "done" /\ SaidYes /\ selected_t1s # <<>>) =>
          /\ Cardinality(Steps("GET")) = Len(selected_t1s)
          /\ \A i \in Steps("GET") :
                /\ log[i].n \in DOMAIN selected_t1s
                /\ log[i].id = t1_list[selected_t1s[log[i].n]]["id"]
                /\ \A j \in Steps("GET") : i < j => log[i].n < log[j].n
          /\ {log[i].n : i \in Steps("GET")} = DOMAIN selected_t1s
          /\ success_count + error_count = Len(selected_t1s)
          /\ success_count = Cardinality({i \in Steps("PUT") : log[i].ok})
          /\ Len(backup_files) = success_count

\* C3: the run is over, the first of two selected gateways failed at its GET
\* and the second was modified.
C3_Witness ==
    /\ pc = "done"
    /\ Len(selected_t1s) = 2
    /\ log # <<>>
    /\ log[1].op = "GET" /\ ~log[1].ok
    /\ success_count = 1
    /\ error_count = 1

\* C4: a PUT comes right after the successful backup of the same attempt,
\* which comes right after its successful GET and holds the object read; a
\* failed GET is the last step of its attempt; no attempt has two PUTs; and
\* when a PUT has just failed the backup of that attempt is on disk.
C4_GetBackupPut ==
    /\ \A i \in Steps("PUT") :
          /\ i >= 3
          /\ log[i - 1].op = "BACKUP" /\ log[i - 1].ok /\ log[i - 1].n = log[i].n
          /\ log[i - 2].op = "GET" /\ log[i - 2].ok /\ log[i - 2].n = log[i].n
          /\ log[i - 1].obj = log[i - 2].obj
          /\ \A j \in Steps("PUT") : j # i => log[j].n # log[i].n
    /\ \A i \in Steps("BACKUP") :
          i >= 2 /\ log[i - 1].op = "GET" /\ log[i - 1].ok
                 /\ log[i - 1].n = log[i].n
    /\ \A i \in Steps("GET") :
          ~log[i].ok => \A j \in DOMAIN log : j # i => log[j].n # log[i].n
    /\ (log # <<>> /\ log[Len(log)].op = "PUT") =>
          /\ log[Len(log) - 1].path \in DOMAIN files
          /\ files[log[Len(log) - 1].path] = log[Len(log) - 1].obj

\* C4: a PUT has just failed and a later gateway is about to be attempted.
C4_Witness ==
    /\ log # <<>>
    /\ log[Len(log)].op = "PUT"
    /\ ~log[Len(log)].ok
    /\ pc = "get"
    /\ idx <= Len(selected_t1s)

\* C10: a backup file that is on disk stays on disk with the content it has.
C10_BackupImmutable ==
    [][\A p \in DOMAIN files : p \in DOMAIN files' /\ files'[p] = files[p]]_vars

----------------------------------------------------------------------------
(* Properties of the listing *)

\* the results of the first k pages, one after the other
RECURSIVE PagesResults(_)
PagesResults(k) ==
    IF k = 0
    THEN <<>>
    ELSE PagesResults(k - 1)
            \o (IF "results" \in DOMAIN pages[k].body
                THEN pages[k].body["results"]
                ELSE <<>>)

\* page k was answered with success and names a next page
Continues(k) ==
    /\ pages[k].status \in 200..299
    /\ "cursor" \in DOMAIN pages[k].body
    /\ pages[k].body["cursor"] \notin {"null", "\"\""}

ListingSteps ==
    /\ Len(requests) = Len(pages)
    /\ \A k \in DOMAIN requests :
          requests[k] = IF k = 1 THEN "null" ELSE pages[k - 1].body["cursor"]
    /\ \A k \in 1..(Len(pages) - 1) : Continues(k)
    /\ pc = "list" => \A k \in DOMAIN pages : Continues(k)
    /\ pc = "classify" =>
          /\ pages # <<>>
          /\ pages[Len(pages)].status \in 200..299
          /\ ~Continues(Len(pages))
          /\ t1_list = PagesResults(Len(pages))
    /\ (pages # <<>> /\ pages[Len(pages)].status \notin 200..299) =>
          /\ pc = "crashed"
          /\ t1_list = <<>>
          /\ ~reported
          /\ non_compliant = <<>>

\* C9: the first GET carries no cursor and each later one the cursor of the
\* page before it; the listing goes on while pages name a next page, returns
\* at the first page that does not, with the results of all pages in the
\* order received; a page answered with an error ends the run with nothing
\* returned or reported; and the listing comes to an end.
C9_ListingFollowsCursor == []ListingSteps /\ <>(pc # "list")

\* C9: a listing of two pages returned the gateways of both.
C9_Witness ==
    /\ pc = "classify"
    /\ Len(pages) = 2
    /\ Get(pages[1].body, "results", <<>>) # <<>>
    /\ Get(pages[2].body, "results", <<>>) # <<>>
    /\ requests[2] = "\"c2\""

----------------------------------------------------------------------------
(* Properties of the classification *)

Increasing(s) == \A i, j \in DOMAIN s : i < j => s[i] < s[j]

\* C5: active_standby_all holds, in the order of the list, the gateways whose
\* ha_mode is ACTIVE_STANDBY and no other; compliant and non_compliant share
\* no gateway and together are active_standby_all; a gateway of it is
\* compliant when its flag is there and truthy and non compliant otherwise.
C5_Buckets ==
    reported =>
        /\ Increasing(active_standby_all)
        /\ Increasing(compliant)
        /\ Increasing(non_compliant)
        /\ Range(active_standby_all) =
              {i \in DOMAIN t1_list :
                  /\ "ha_mode" \in DOMAIN t1_list[i]
                  /\ t1_list[i]["ha_mode"] = "ACTIVE_STANDBY"}
        /\ Range(compliant) \cap Range(non_compliant) = {}
        /\ Range(compliant) \cup Range(non_compliant) = Range(active_standby_all)
        /\ \A i \in Range(active_standby_all) :
              i \in Range(compliant) <=>
                  /\ Flag \in DOMAIN t1_list[i]
                  /\ t1_list[i][Flag] \notin {"false", "null", "0", "\"\""}
        /\ \A i \in Range(compliant), j \in Range(non_compliant) :
              t1_list[i] # t1_list[j]

\* C5: a gateway without the flag is non compliant next to one whose flag is
\* the number 1, which is compliant.
C5_Witness ==
    /\ reported
    /\ \E i \in Range(non_compliant) : Flag \notin DOMAIN t1_list[i]
    /\ \E i \in Range(compliant) : t1_list[i][Flag] = "1"

----------------------------------------------------------------------------
(* Properties of the selection *)

IsCancel(typed) == Lower(Strip(typed)) \in CancelWords
IsAll(typed) == Lower(Strip(typed)) \in AllWords

\* the names of a line that is not a word of the menu
Tokens(typed) == Names(Strip(typed))

\* the token is, whatever the case of the letters, the id of the gateway or
\* its display name
Named(tok, t1) ==
    \/ Lower(Get(t1, "id", <<>>)) = Lower(tok)
    \/ /\ Get(t1, "display_name", <<>>) # <<>>
       /\ Lower(t1["display_name"]) = Lower(tok)

\* the places of the bucket whose gateway the token names
Owners(tok) == {p \in DOMAIN non_compliant : Named(tok, t1_list[non_compliant[p]])}

\* the places of the line whose token names a gateway of the bucket
Hits(typed) == {k \in DOMAIN Tokens(typed) : Owners(Tokens(typed)[k]) # {}}

Last(places) == CHOOSE p \in places : \A q \in places : q <= p

\* the gateway a token stands for: the last of the bucket that it names
Resolve(tok) == non_compliant[Last(Owners(tok))]

\* C6: the selector returns the empty list only for a word of cancellation;
\* a line none of whose names is a gateway of the bucket is answered with a
\* new prompt and never returned from; a line with a name that is one returns
\* a gateway for every such name, whatever other names it holds.
C6_EmptyOnlyOnCancel ==
    /\ (Returned /\ selected_t1s = <<>>) => IsCancel(line)
    /\ (pc = "select" /\ prompts > 0) =>
          /\ ~IsCancel(line)
          /\ ~IsAll(line)
          /\ Hits(line) = {}
          /\ selected_t1s = <<>>
    /\ (Returned /\ ~IsCancel(line) /\ ~IsAll(line)) =>
          /\ Hits(line) # {}
          /\ selected_t1s # <<>>
          /\ \A k \in Hits(line) :
                \E p \in DOMAIN selected_t1s :
                    Named(Tokens(line)[k], t1_list[selected_t1s[p]])

\* C6: a first line without any known name was refused and a second line,
\* with a known name and an unknown one, returned a selection.
C6_Witness ==
    /\ prompts = 2
    /\ pc = "confirm"
    /\ Hits(line) # {}
    /\ Hits(line) # DOMAIN Tokens(line)

\* the place in the line of the first token that stands for the p-th
\* selected gateway
FirstToken(p) ==
    CHOOSE k \in Hits(line) :
        /\ t1_list[Resolve(Tokens(line)[k])] = t1_list[selected_t1s[p]]
        /\ \A j \in Hits(line) :
              t1_list[Resolve(Tokens(line)[j])] = t1_list[selected_t1s[p]]
                  => k <= j

\* C7: what the selector returns holds gateways of the non compliant bucket
\* only and none of them twice; for all, a or * it is the bucket as it is;
\* for a list of names it holds the gateway of every known name once, in the
\* order in which the names first stand for them.
C7_SelectionDeduplicated ==
    Returned =>
        /\ Range(selected_t1s) \subseteq Range(non_compliant)
        /\ \A p, q \in DOMAIN selected_t1s :
              p # q => selected_t1s[p] # selected_t1s[q]
        /\ (IsAll(line) /\ ~IsCancel(line)) => selected_t1s = non_compliant
        /\ (~IsAll(line) /\ ~IsCancel(line)) =>
              /\ \A p, q \in DOMAIN selected_t1s :
                    p # q => t1_list[selected_t1s[p]] # t1_list[selected_t1s[q]]
              /\ \A k \in Hits(line) :
                    \E p \in DOMAIN selected_t1s :
                        t1_list[selected_t1s[p]] = t1_list[Resolve(Tokens(line)[k])]
              /\ \A p \in DOMAIN selected_t1s :
                    \E k \in Hits(line) :
                        selected_t1s[p] = Resolve(Tokens(line)[k])
              /\ \A p, q \in DOMAIN selected_t1s :
                    p < q => FirstToken(p) < FirstToken(q)

\* C7: a line named one gateway by its id and by its display name in another
\* case, and a second gateway after it; each was returned once.
C7_Witness ==
    /\ Returned
    /\ ~IsAll(line)
    /\ Len(selected_t1s) = 2
    /\ Cardinality(Hits(line)) = 3
    /\ \E j, k \in Hits(line) :
          /\ j < k
          /\ Tokens(line)[j] # Tokens(line)[k]
          /\ Lower(Tokens(line)[j]) # Lower(Tokens(line)[k])
          /\ Resolve(Tokens(line)[j]) = Resolve(Tokens(line)[k])

\* the line is one name that is the display name of one gateway of the
\* bucket, which has another id, and the id of another
Collision ==
    /\ Returned
    /\ ~IsCancel(line)
    /\ ~IsAll(line)
    /\ Len(Tokens(line)) = 1
    /\ \E x, y \in Range(non_compliant) :
          /\ x # y
          /\ Get(t1_list[x], "display_name", <<>>) # <<>>
          /\ Lower(t1_list[x]["display_name"]) = Lower(Tokens(line)[1])
          /\ Lower(t1_list[x]["id"]) # Lower(Tokens(line)[1])
          /\ Lower(t1_list[y]["id"]) = Lower(Tokens(line)[1])

\* C8: a name that is the display name of one gateway and the id of another
\* selects the gateway whose id it is, wherever the two are in the bucket.
C8_IdBeforeDisplayName ==
    Collision =>
        /\ Len(selected_t1s) = 1
        /\ Lower(t1_list[selected_t1s[1]]["id"]) = Lower(Tokens(line)[1])

====
